---- MODULE Spec2Model ----
(***************************************************************************)
(* Model of the Thymer "Recent Files" plugin (src/plugin.js).              *)
(*                                                                         *)
(* The host's collections and records are fixed by Init.  A call of        *)
(* getRecentFiles is a small process: it suspends at                       *)
(* `await this.data.getAllCollections()` and at every                      *)
(* `await collection.getAllRecords()`, and each of these may reject.       *)
(* Everything between two awaits is one atomic step.                       *)
(*                                                                         *)
(* Times are integers (milliseconds); a record without an updated_at date  *)
(* has updatedAt = NoDate.                                                 *)
(***************************************************************************)
EXTENDS Integers, Sequences, FiniteSets, TLC

VARIABLES
    collections,   \* the host's data: a sequence of collections
    config,        \* plugin configuration; an option is <<>> when not set, else <<value>>
    calls,         \* the getRecentFiles invocations, by id
    modals,        \* the modals created by showRecentFilesModal, by id
    opens,         \* the item.onclick / openRecord invocations, in click order
    lastEvent,     \* the event whose handler or continuation ran last
    now,           \* the clock that `new Date()` reads (ms)
    fmtDate,       \* formatRelativeTime: the argument `date` (ms)
    fmtLabel       \* formatRelativeTime: the returned label

vars == <<collections, config, calls, modals, opens, lastEvent, now, fmtDate, fmtLabel>>

----------------------------------------------------------------------------
(* Bounds of the model *)

MaxCollections == 3
MaxDocs == 3
MaxTime == 2
MaxN == 3
MaxModals == 2
ModalMaxN == 1
ModalCollections == 2
ModalDocs == 2
BigDocs == 17
MaxOpens == 2
ClickItems == 2
FmtHours == 2
FmtDays == 31

(* Program constants *)

DefaultMaxFiles == 15

\* record.date('updated_at') of a record that has no such date (null)
NoDate == 0

Min(a, b) == IF a < b THEN a ELSE b
Max(a, b) == IF a > b THEN a ELSE b

----------------------------------------------------------------------------
(* The host's data *)

\* record j of collection i; t is record.date('updated_at') or NoDate
MkRecord(i, j, t) == [guid |-> 100 * i + j, name |-> 100 * i + j, updatedAt |-> t]

\* collection i with the updated_at values ts of its records
MkCollection(i, ts) ==
    [name |-> i, icon |-> i,
     records |-> [j \in 1..Len(ts) |-> MkRecord(i, j, ts[j])]]

SeqsOfLen(S, n) == [1..n -> S]

RECURSIVE TimeLists(_, _)
\* the updated_at lists of k collections that hold at most d records together
TimeLists(k, d) ==
    IF k = 0 THEN {<<>>}
    ELSE UNION { { <<ts>> \o rest : ts \in SeqsOfLen(0..MaxTime, l),
                                    rest \in TimeLists(k - 1, d - l) }
                 : l \in 0..d }

MkData(tss) == [i \in 1..Len(tss) |-> MkCollection(i, tss[i])]

\* every host state with at most MaxCollections collections and MaxDocs records
DataSets == UNION { { MkData(tss) : tss \in TimeLists(k, MaxDocs) }
                    : k \in 0..MaxCollections }

\* host states with more records than the default limit: one collection of d
\* records whose dates repeat 1..MaxTime, followed by an undated record
BigData == { MkData(<<[j \in 1..d |-> IF j = d THEN NoDate ELSE 1 + (j % MaxTime)]>>)
             : d \in (BigDocs - 1)..BigDocs }

RECURSIVE ModalTimeLists(_, _)
\* as TimeLists, each record either undated or dated MaxTime
ModalTimeLists(k, d) ==
    IF k = 0 THEN {<<>>}
    ELSE UNION { { <<ts>> \o rest : ts \in SeqsOfLen({NoDate, MaxTime}, l),
                                    rest \in ModalTimeLists(k - 1, d - l) }
                 : l \in 0..d }

\* the host states the modal is opened on: the small ones, whose order of
\* dates does not matter to the modal, and the big ones
ModalData == UNION { { MkData(tss) : tss \in ModalTimeLists(k, ModalDocs) }
                     : k \in 0..ModalCollections } \cup BigData

----------------------------------------------------------------------------
(* getRecentFiles *)

\* variant: the `if (updatedAt)` test left out
TruthyAlways(updatedAt) == TRUE

\* `if (updatedAt)`: a Date is truthy, null is not
Truthy(updatedAt) == updatedAt # NoDate

\* the object pushed for a record of a collection
FileOf(collection, record) ==
    [recordGuid     |-> record.guid,
     collectionName |-> collection.name,
     collectionIcon |-> collection.icon,
     title          |-> record.name,
     updatedAt      |-> record.updatedAt]

\* the inner loop over one collection's records
PushRecords(files, collection) ==
    LET dated == SelectSeq(collection.records, LAMBDA r : Truthy(r.updatedAt))
    IN  files \o [j \in 1..Len(dated) |-> FileOf(collection, dated[j])]

\* variant: the comparator with its operands swapped (oldest first)
CompareAscending(a, b) == a.updatedAt - b.updatedAt

\* the comparator given to files.sort
Compare(a, b) == b.updatedAt - a.updatedAt

\* variant: an unstable sort, which places x before the elements it ties with
InsertBeforeTies(sorted, x) ==
    LET keep == { i \in 1..Len(sorted) : sorted[i].updatedAt > x.updatedAt }
        k == Cardinality(keep)
    IN  SubSeq(sorted, 1, k) \o <<x>> \o SubSeq(sorted, k + 1, Len(sorted))

\* Array.prototype.sort is stable: x is placed behind every element that
\* the comparator does not order after it
Insert(sorted, x) ==
    LET keep == { i \in 1..Len(sorted) : Compare(sorted[i], x) <= 0 }
        k == Cardinality(keep)
    IN  SubSeq(sorted, 1, k) \o <<x>> \o SubSeq(sorted, k + 1, Len(sorted))

\* variant: the sort left out
SortFilesSkipped(files) == files

RECURSIVE SortFiles(_)
SortFiles(files) ==
    IF files = <<>> THEN <<>>
    ELSE Insert(SortFiles(SubSeq(files, 1, Len(files) - 1)), files[Len(files)])

\* variant: slice(0, end + 1), one element too many
SliceOneMore(files, end) ==
    LET len == Len(files)
        to == IF end + 1 < 0 THEN Max(len + end + 1, 0) ELSE Min(end + 1, len)
    IN  SubSeq(files, 1, to)

\* files.slice(0, end): a negative end counts from the end of the array
Slice(files, end) ==
    LET len == Len(files)
        to == IF end < 0 THEN Max(len + end, 0) ELSE Min(end, len)
    IN  SubSeq(files, 1, to)

NoCall ==
    [pc |-> "idle", caller |-> "none", maxFiles |-> 0, idx |-> 0,
     files |-> <<>>, result |-> <<>>, failedAt |-> -1]

\* variant: `files` kept in a field of the plugin and not reset, so that a
\* call starts with the files the first call has pushed
StartCallSharedFiles(n, caller) ==
    [NoCall EXCEPT !.pc = "getAllCollections", !.caller = caller, !.maxFiles = n,
                   !.files = calls[1].files]

\* getRecentFiles(maxFiles) up to its first await
StartCall(n, caller) ==
    [NoCall EXCEPT !.pc = "getAllCollections", !.caller = caller, !.maxFiles = n]

\* sort, slice and return
Return(call) ==
    [call EXCEPT !.pc = "resolved",
                 !.result = Slice(SortFiles(call.files), call.maxFiles)]

\* variant: the failure caught and the files read so far returned
RejectSwallowed(call, at) ==
    [call EXCEPT !.pc = "resolved", !.failedAt = at,
                 !.result = Slice(SortFiles(call.files), call.maxFiles)]

\* an await rejects: nothing catches it, the call's promise rejects.
\* at is 0 for getAllCollections, else the index of the collection
Reject(call, at) ==
    [call EXCEPT !.pc = "rejected", !.failedAt = at]

\* getAllCollections has resolved
AfterCollections(call) ==
    IF Len(collections) = 0 THEN Return(call)
    ELSE [call EXCEPT !.pc = "getAllRecords", !.idx = 1]

\* getAllRecords of collection call.idx has resolved
AfterRecords(call) ==
    LET pushed == [call EXCEPT
                     !.files = PushRecords(call.files, collections[call.idx])]
    IN  IF call.idx = Len(collections) THEN Return(pushed)
        ELSE [pushed EXCEPT !.idx = call.idx + 1]

----------------------------------------------------------------------------
(* formatRelativeTime *)

MsPerSec == 1000
SecsPerMin == 60
MinsPerHour == 60
HoursPerDay == 24
DaysPerWeek == 7
DateAfterDays == 30

NoLabel == [kind |-> "none", n |-> 0]
JustNow == [kind |-> "just now", n |-> 0]
Ago(n, unit) == [kind |-> unit, n |-> n]          \* `${n}${unit} ago`
DateLabel(date) == [kind |-> "date", n |-> date.s] \* date.toLocaleDateString(..)

\* an instant is whole seconds plus 0..999 milliseconds since the epoch, so
\* that ages of a month stay inside TLC's integers; getTime() is
\* MsPerSec * s + ms
Instant(t) == [s |-> t \div MsPerSec, ms |-> t % MsPerSec]

\* variant: Math.round instead of Math.floor
Round(x, d) == (2 * x + d) \div (2 * d)

\* Math.floor(x / d) for d > 0; \div rounds down as Math.floor does
Floor(x, d) == x \div d

\* variant: the absolute difference of the two instants
DiffSecsAbs(date, clock) ==
    LET d == (clock.s - date.s) + ((clock.ms - date.ms) \div MsPerSec)
    IN  IF d < 0 THEN 0 - d ELSE d

\* Math.floor((now.getTime() - date.getTime()) / 1000), on instants
DiffSecs(date, clock) ==
    (clock.s - date.s) + Floor(clock.ms - date.ms, MsPerSec)

formatRelativeTime(date, clock) ==
    LET diffSecs == DiffSecs(date, clock)
        diffMins == Floor(diffSecs, SecsPerMin)
        diffHours == Floor(diffMins, MinsPerHour)
        diffDays == Floor(diffHours, HoursPerDay)
    IN  IF diffSecs < SecsPerMin THEN JustNow
        ELSE IF diffMins < MinsPerHour THEN Ago(diffMins, "m")
        ELSE IF diffHours < HoursPerDay THEN Ago(diffHours, "h")
        ELSE IF diffDays < DaysPerWeek THEN Ago(diffDays, "d")
        ELSE IF diffDays < DateAfterDays THEN Ago(Floor(diffDays, DaysPerWeek), "w")
        ELSE DateLabel(date)

----------------------------------------------------------------------------
(* showRecentFilesModal *)

\* variant: the configuration not consulted
MaxFilesOfDefaultOnly(cfg) == DefaultMaxFiles

\* config.custom?.maxFiles || 15: undefined and 0 are falsy
MaxFilesOf(cfg) ==
    IF cfg.maxFiles = <<>> \/ cfg.maxFiles = <<0>> THEN DefaultMaxFiles
    ELSE cfg.maxFiles[1]

\* variant: `config.custom?.showCollection` tested for truthiness
ShowCollectionIfTruthy(cfg) == cfg.showCollection = <<TRUE>>

\* config.custom?.showCollection !== false
ShowCollectionOf(cfg) == cfg.showCollection # <<FALSE>>

NoModal ==
    [body |-> "none", attached |-> FALSE, escListener |-> FALSE, items |-> <<>>,
     showCollection |-> FALSE]

\* the modal as built before the first await: in the document, showing
\* "Loading...", its escHandler registered on the document
NewModal ==
    [body |-> "loading", attached |-> TRUE, escListener |-> TRUE, items |-> <<>>,
     showCollection |-> ShowCollectionOf(config)]

\* one .recent-file-item of the list; the meta line holds the collection
\* name and the separator only when showCollection is set (a field that is
\* <<>> is an element that was not appended)
ItemOf(file, showCollection) ==
    [recordGuid     |-> file.recordGuid,
     icon           |-> file.collectionIcon,
     title          |-> file.title,
     collectionName |-> IF showCollection THEN <<file.collectionName>> ELSE <<>>,
     separator      |-> showCollection,
     time           |-> formatRelativeTime(Instant(file.updatedAt), now)]

\* the try block after `await this.getRecentFiles(maxFiles)`
RenderFiles(modal, recentFiles) ==
    IF Len(recentFiles) = 0 THEN [modal EXCEPT !.body = "empty", !.items = <<>>]
    ELSE [modal EXCEPT !.body = "list",
                       !.items = [i \in 1..Len(recentFiles) |->
                                     ItemOf(recentFiles[i], modal.showCollection)]]

\* variant: the catch block showing the message of the empty result
RenderErrorAsEmpty(modal) == [modal EXCEPT !.body = "empty", !.items = <<>>]

\* the catch block
RenderError(modal) == [modal EXCEPT !.body = "error", !.items = <<>>]

\* variant: the backdrop appended to the document when the list is ready
ContinueAttaching(call, modal) ==
    IF call.caller # "modal" THEN modal
    ELSE IF call.pc = "resolved"
         THEN [RenderFiles(modal, call.result) EXCEPT !.attached = TRUE]
    ELSE IF call.pc = "rejected" THEN RenderError(modal)
    ELSE modal

\* what the caller of a call does when the call settles
Continue(call, modal) ==
    IF call.caller # "modal" THEN modal
    ELSE IF call.pc = "resolved" THEN RenderFiles(modal, call.result)
    ELSE IF call.pc = "rejected" THEN RenderError(modal)
    ELSE modal

Ids == 1..MaxModals

\* backdrops are stacked in document order: a click reaches the last attached
Topmost(m) == modals[m].attached /\ \A k \in Ids : k > m => ~modals[k].attached

----------------------------------------------------------------------------
(* item.onclick and openRecord *)

\* how the host answers an openRecord that has a workspace guid:
\* "opened": createPanel resolves to a panel and all goes well;
\* "noPanel": createPanel resolves to nothing, or rejects;
\* "navigationThrew": navigateTo, or setActivePanel after it, throws
PanelOutcomes == {"opened", "noPanel", "navigationThrew"}

\* openRecord(recordGuid, title) for item i of modal m, up to its await:
\* without a workspace guid it logs and returns at once.
\* navigated lists the rootIds given to navigateTo; rejected tells whether
\* the promise of openRecord rejects
StartOpen(m, i, hasWorkspace) ==
    [modal |-> m, item |-> i, recordGuid |-> modals[m].items[i].recordGuid,
     pc |-> IF hasWorkspace THEN "createPanel" ELSE "done",
     outcome |-> IF hasWorkspace THEN "pending" ELSE "noWorkspace",
     navigated |-> <<>>, rejected |-> FALSE]

\* variant: navigateTo given the guid of the first item of the list
NavigateToFirst(open) == <<modals[open.modal].items[1].recordGuid>>

\* newPanel.navigateTo({type: 'edit_panel', rootId: recordGuid, ..})
NavigateTo(open) == <<open.recordGuid>>

\* the rest of openRecord once createPanel has settled; its catch block
\* logs whatever was thrown, so the promise of openRecord never rejects
AfterCreatePanel(open, outcome) ==
    [open EXCEPT !.pc = "done",
                 !.outcome = outcome,
                 !.navigated = IF outcome = "noPanel" THEN <<>> ELSE NavigateTo(open),
                 !.rejected = FALSE]

\* item.onclick after `await this.openRecord(..)`: backdrop.remove(), or
\* the catch block when openRecord has rejected
AfterOpen(modal, open) ==
    IF open.pc # "done" \/ open.rejected THEN modal
    ELSE [modal EXCEPT !.attached = FALSE]

----------------------------------------------------------------------------
(* Actions *)

UnchangedFormatter == UNCHANGED <<now, fmtDate, fmtLabel>>

NoEvent == [kind |-> "none", m |-> 0]
Event(kind, m) == [kind |-> kind, m |-> m]

\* variant: the body element kept in a field of the plugin, so that a call
\* renders into the modal opened last
StepIntoNewest(m, call) ==
    LET newest == CHOOSE k \in Ids :
                      modals[k].body # "none" /\ \A j \in Ids : j > k => modals[j].body = "none"
    IN  /\ calls' = [calls EXCEPT ![m] = call]
        /\ modals' = [modals EXCEPT ![newest] = Continue(call, @)]
        /\ lastEvent' = Event("host", m)
        /\ UNCHANGED <<collections, config, opens>>
        /\ UnchangedFormatter

\* an await of call m settles: the call runs on to its next await or to its
\* end, and when it ends the showRecentFilesModal that awaits it runs on
Step(m, call) ==
    /\ calls' = [calls EXCEPT ![m] = call]
    /\ modals' = [modals EXCEPT ![m] = Continue(call, @)]
    /\ lastEvent' = Event("host", m)
    /\ UNCHANGED <<collections, config, opens>>
    /\ UnchangedFormatter

GetAllCollectionsResolves(m) ==
    /\ calls[m].pc = "getAllCollections"
    /\ Step(m, AfterCollections(calls[m]))

GetAllCollectionsRejects(m) ==
    /\ calls[m].pc = "getAllCollections"
    /\ Step(m, Reject(calls[m], 0))

GetAllRecordsResolves(m) ==
    /\ calls[m].pc = "getAllRecords"
    /\ Step(m, AfterRecords(calls[m]))

GetAllRecordsRejects(m) ==
    /\ calls[m].pc = "getAllRecords"
    /\ Step(m, Reject(calls[m], calls[m].idx))

\* the sidebar item's onClick: showRecentFilesModal up to its await
SidebarClick ==
    /\ \E m \in Ids :
        /\ modals[m].body = "none"
        /\ \A k \in Ids : k < m => modals[k].body # "none"
        /\ modals' = [modals EXCEPT ![m] = NewModal]
        /\ calls' = [calls EXCEPT ![m] = StartCall(MaxFilesOf(config), "modal")]
        /\ lastEvent' = Event("sidebar", m)
    /\ UNCHANGED <<collections, config, opens>>
    /\ UnchangedFormatter

\* keydown Escape on the document: every registered escHandler runs
EscapeKey ==
    /\ modals' = [m \in Ids |->
                    IF modals[m].escListener
                    THEN [modals[m] EXCEPT !.attached = FALSE, !.escListener = FALSE]
                    ELSE modals[m]]
    /\ lastEvent' = Event("escape", 0)
    /\ UNCHANGED <<collections, config, calls, opens>>
    /\ UnchangedFormatter

\* variant: the backdrop's click listener comparing e.target with the modal
BackdropClickIgnored(m) ==
    /\ Topmost(m)
    /\ lastEvent' = Event("backdrop", m)
    /\ UNCHANGED <<collections, config, calls, modals, opens>>
    /\ UnchangedFormatter

\* click on the backdrop itself (e.target === backdrop)
BackdropClick(m) ==
    /\ Topmost(m)
    /\ modals' = [modals EXCEPT ![m].attached = FALSE]
    /\ lastEvent' = Event("backdrop", m)
    /\ UNCHANGED <<collections, config, calls, opens>>
    /\ UnchangedFormatter

\* variant: the close button also starting a fresh scan
CloseBtnClickRescans(m) ==
    /\ Topmost(m)
    /\ modals' = [modals EXCEPT ![m].attached = FALSE]
    /\ calls' = [calls EXCEPT ![m] = StartCall(MaxFilesOf(config), "modal")]
    /\ lastEvent' = Event("closeBtn", m)
    /\ UNCHANGED <<collections, config, opens>>
    /\ UnchangedFormatter

\* closeBtn.onclick
CloseBtnClick(m) ==
    /\ Topmost(m)
    /\ modals' = [modals EXCEPT ![m].attached = FALSE]
    /\ lastEvent' = Event("closeBtn", m)
    /\ UNCHANGED <<collections, config, calls, opens>>
    /\ UnchangedFormatter

\* click inside the modal, on neither an item nor the close button: the
\* modal's listener stops the propagation, the backdrop's listener would
\* not act on it either
ModalClick(m) ==
    /\ Topmost(m)
    /\ lastEvent' = Event("inside", m)
    /\ UNCHANGED <<collections, config, calls, modals, opens>>
    /\ UnchangedFormatter

\* item.onclick of item i of modal m, up to the await inside openRecord;
\* when openRecord returns without awaiting, the handler runs to its end
ItemClick(m, i) ==
    /\ Topmost(m)
    /\ modals[m].body = "list"
    /\ i \in 1..Min(Len(modals[m].items), ClickItems)
    /\ Len(opens) < MaxOpens
    /\ \E hasWorkspace \in BOOLEAN :
         LET open == StartOpen(m, i, hasWorkspace)
         IN  /\ opens' = Append(opens, open)
             /\ modals' = [modals EXCEPT ![m] = AfterOpen(@, open)]
    /\ lastEvent' = Event("item", m)
    /\ UNCHANGED <<collections, config, calls>>
    /\ UnchangedFormatter

\* createPanel of the k-th openRecord settles: openRecord and the item's
\* click handler run to their ends
CreatePanelSettles(k) ==
    /\ k \in 1..Len(opens)
    /\ opens[k].pc = "createPanel"
    /\ \E outcome \in PanelOutcomes :
         LET open == AfterCreatePanel(opens[k], outcome)
         IN  /\ opens' = [opens EXCEPT ![k] = open]
             /\ modals' = [modals EXCEPT ![open.modal] = AfterOpen(@, open)]
    /\ lastEvent' = Event("panel", opens[k].modal)
    /\ UNCHANGED <<collections, config, calls>>
    /\ UnchangedFormatter

\* formatRelativeTime(date) called on its own
FormatRelativeTime ==
    /\ fmtLabel = NoLabel
    /\ fmtLabel' = formatRelativeTime(fmtDate, now)
    /\ UNCHANGED <<collections, config, calls, modals, opens, lastEvent, now, fmtDate>>

----------------------------------------------------------------------------
(* Specifications *)

NoCalls == [m \in Ids |-> NoCall]
NoModals == [m \in Ids |-> NoModal]

\* the clock of the plugin runs: two minutes after the epoch, later than
\* every date of the data
RenderClock == [s |-> 120, ms |-> 0]
NoInstant == [s |-> 0, ms |-> 0]

MaxFilesValues == {<<>>} \cup { <<n>> : n \in (0 - ModalMaxN)..ModalMaxN }
ShowCollectionValues == {<<>>, <<TRUE>>, <<FALSE>>}
NoConfig == [maxFiles |-> <<>>, showCollection |-> <<>>]

\* the plugin, loaded, no modal yet
Init ==
    /\ collections \in ModalData
    /\ config \in [maxFiles : MaxFilesValues, showCollection : ShowCollectionValues]
    /\ calls = NoCalls
    /\ modals = NoModals
    /\ opens = <<>>
    /\ lastEvent = NoEvent
    /\ now = RenderClock
    /\ fmtDate = NoInstant
    /\ fmtLabel = NoLabel

Next ==
    \/ SidebarClick
    \/ EscapeKey
    \/ \E m \in Ids :
        \/ GetAllCollectionsResolves(m)
        \/ GetAllCollectionsRejects(m)
        \/ GetAllRecordsResolves(m)
        \/ GetAllRecordsRejects(m)
        \/ BackdropClick(m)
        \/ CloseBtnClick(m)
        \/ ModalClick(m)
        \/ \E i \in 1..ClickItems : ItemClick(m, i)
    \/ \E k \in 1..MaxOpens : CreatePanelSettles(k)

Spec == Init /\ [][Next]_vars

\* getRecentFiles(n) called on its own, for every n
InitCollect ==
    /\ collections \in DataSets \cup BigData
    /\ config = NoConfig
    /\ \E n \in ((0 - MaxN)..MaxN) \cup {DefaultMaxFiles} :
         calls = [NoCalls EXCEPT ![1] = StartCall(n, "direct")]
    /\ modals = NoModals
    /\ opens = <<>>
    /\ lastEvent = NoEvent
    /\ now = RenderClock
    /\ fmtDate = NoInstant
    /\ fmtLabel = NoLabel

NextCollect ==
    \/ GetAllCollectionsResolves(1)
    \/ GetAllCollectionsRejects(1)
    \/ GetAllRecordsResolves(1)
    \/ GetAllRecordsRejects(1)

SpecCollect == InitCollect /\ [][NextCollect]_vars

\* formatRelativeTime(date) called on its own, for ages around every band
SecsPerHour == SecsPerMin * MinsPerHour
FmtClock == [s |-> (FmtDays + 2) * HoursPerDay * SecsPerHour, ms |-> 500]

\* ages in whole seconds: every second of the first FmtHours hours, then the
\* seconds around every full hour up to FmtDays days
FmtAges ==
    (0..(FmtHours * SecsPerHour + 1))
    \cup { h * SecsPerHour + e : h \in 1..(FmtDays * HoursPerDay), e \in {-1, 0, 1} }

\* ages of timestamps later than the clock
FmtFutureAges ==
    { 0 - a : a \in (1..(2 * SecsPerMin)) \cup
                     { h * SecsPerHour + e : h \in 1..(FmtDays * HoursPerDay), e \in {-1, 0, 1} } }

InitFormat ==
    /\ collections = <<>>
    /\ config = NoConfig
    /\ calls = NoCalls
    /\ modals = NoModals
    /\ opens = <<>>
    /\ lastEvent = NoEvent
    /\ now = FmtClock
    /\ \E a \in FmtAges \cup FmtFutureAges, ms \in {0, 499, 500, 501, 999} :
         fmtDate = [s |-> FmtClock.s - a, ms |-> ms]
    /\ fmtLabel = NoLabel

NextFormat == FormatRelativeTime

SpecFormat == InitFormat /\ [][NextFormat]_vars

----------------------------------------------------------------------------
(* Properties of getRecentFiles (SpecCollect) *)

\* the documents of the host that have an updated_at date, as (collection,
\* record) positions, read off the data
DatedDocs ==
    { p \in (1..Len(collections)) \X (1..BigDocs + 1) :
        /\ p[2] <= Len(collections[p[1]].records)
        /\ collections[p[1]].records[p[2]].updatedAt # NoDate }

NumDated == Cardinality(DatedDocs)

DocAt(p) == collections[p[1]].records[p[2]]

Resolved(c) == calls[c].pc = "resolved"

InResult(c, p) ==
    \E i \in 1..Len(calls[c].result) : calls[c].result[i].recordGuid = DocAt(p).guid

\* C1: the sequence getRecentFiles returns is ordered by modification time,
\* most recent first: no element is older than its successor.
C1_SortedDescending ==
    \A c \in Ids : Resolved(c) =>
        \A i \in 1..(Len(calls[c].result) - 1) :
            calls[c].result[i].updatedAt >= calls[c].result[i + 1].updatedAt

\* a call has returned two files that were discovered oldest first
C1_Witness ==
    /\ Resolved(1)
    /\ Len(calls[1].result) >= 2
    /\ calls[1].files[1].updatedAt < calls[1].files[2].updatedAt
    /\ calls[1].result[1].updatedAt > calls[1].result[2].updatedAt

\* C2 as stated: for every n, zero and negative included, the result is no
\* longer than n and no longer than the number of dated documents.
C2_Original ==
    \A c \in Ids : Resolved(c) =>
        /\ Len(calls[c].result) <= calls[c].maxFiles
        /\ Len(calls[c].result) <= NumDated

\* C2 as amended: for every n >= 0 the result is no longer than n, and for
\* every n, negative included, it is no longer than the number of dated
\* documents.
C2_LengthBounded ==
    \A c \in Ids : Resolved(c) =>
        /\ calls[c].maxFiles >= 0 => Len(calls[c].result) <= calls[c].maxFiles
        /\ Len(calls[c].result) <= NumDated

\* a call has cut a longer list down to n > 0 files
C2_Witness ==
    /\ Resolved(1)
    /\ calls[1].maxFiles > 0
    /\ Len(calls[1].files) > calls[1].maxFiles
    /\ Len(calls[1].result) = calls[1].maxFiles

\* C3: getRecentFiles(0) and getRecentFiles(n) for negative n return the
\* empty sequence, whatever the collections contain.
C3_NonPositiveGivesEmpty ==
    \A c \in Ids : (Resolved(c) /\ calls[c].maxFiles <= 0) => calls[c].result = <<>>

\* C4: for n > 0 the result has exactly min(n, number of dated documents)
\* elements, and no dated document that was left out is more recent than an
\* element of the result.
C4_KeepsLargestN ==
    \A c \in Ids : (Resolved(c) /\ calls[c].maxFiles > 0) =>
        /\ Len(calls[c].result) = Min(calls[c].maxFiles, NumDated)
        /\ \A p \in DatedDocs : ~InResult(c, p) =>
             \A i \in 1..Len(calls[c].result) :
                 DocAt(p).updatedAt <= calls[c].result[i].updatedAt

\* a call with n > 0 has left out the first discovered document, which is
\* older than one it kept
C4_Witness ==
    /\ Resolved(1)
    /\ calls[1].maxFiles > 0
    /\ NumDated > calls[1].maxFiles
    /\ \E i \in 1..Len(calls[1].result) :
         /\ calls[1].files[1].updatedAt < calls[1].result[i].updatedAt
         /\ \A k \in 1..Len(calls[1].result) :
              calls[1].result[k].recordGuid # calls[1].files[1].recordGuid

\* three collections of one document each, all with the same date
ThreeTies ==
    /\ Len(collections) = 3
    /\ \A i \in 1..3 : Len(collections[i].records) = 1
    /\ collections[1].records[1].updatedAt # NoDate
    /\ \A i \in 2..3 :
         collections[i].records[1].updatedAt = collections[1].records[1].updatedAt

\* C5: documents with equal dates appear in the result in discovery order
\* (record guids grow in discovery order), a dated document that was left
\* out was discovered after every kept one of the same date, and three
\* equally dated documents of collections 1, 2, 3 give for n = 2 the
\* documents of collections 1 and 2, in that order.
C5_StableTies ==
    \A c \in Ids : Resolved(c) =>
        LET r == calls[c].result IN
        /\ \A i, j \in 1..Len(r) :
             (i < j /\ r[i].updatedAt = r[j].updatedAt) => r[i].recordGuid < r[j].recordGuid
        /\ \A p \in DatedDocs : ~InResult(c, p) =>
             \A i \in 1..Len(r) :
                 r[i].updatedAt = DocAt(p).updatedAt => r[i].recordGuid < DocAt(p).guid
        /\ (ThreeTies /\ calls[c].maxFiles = 2) =>
             r = << FileOf(collections[1], collections[1].records[1]),
                    FileOf(collections[2], collections[2].records[1]) >>

\* the scenario of three tied documents, collected with n = 2
C5_Witness ==
    /\ ThreeTies
    /\ Resolved(1)
    /\ calls[1].maxFiles = 2
    /\ Len(calls[1].result) = 2

\* C6: every element of a result is built from a record that has a date,
\* and carries that record's guid and date and the name and icon of the
\* collection that holds the record; a record without a date is in no result.
C6_OnlyDatedDocs ==
    \A c \in Ids : Resolved(c) =>
        /\ \A i \in 1..Len(calls[c].result) :
             \E p \in DatedDocs :
                 /\ calls[c].result[i].recordGuid = DocAt(p).guid
                 /\ calls[c].result[i].updatedAt = DocAt(p).updatedAt
                 /\ calls[c].result[i].collectionName = collections[p[1]].name
                 /\ calls[c].result[i].collectionIcon = collections[p[1]].icon
        /\ \A k \in 1..Len(collections) : \A j \in 1..Len(collections[k].records) :
             collections[k].records[j].updatedAt = NoDate =>
                 \A i \in 1..Len(calls[c].result) :
                     calls[c].result[i].recordGuid # collections[k].records[j].guid

\* a call whose limit had room for every record has returned the dated
\* record of the second collection and not the undated record before it
C6_Witness ==
    /\ Resolved(1)
    /\ Len(collections) >= 2
    /\ Len(collections[1].records) >= 1
    /\ collections[1].records[1].updatedAt = NoDate
    /\ calls[1].maxFiles >= MaxDocs
    /\ Len(calls[1].result) >= 1
    /\ calls[1].result[1].collectionName = collections[2].name

\* C7: when getAllCollections or the getAllRecords of any collection has
\* failed, the call is rejected and has returned nothing: no list built from
\* the collections read before the failure.
C7_FailurePropagates ==
    \A c \in Ids : calls[c].failedAt >= 0 =>
        /\ calls[c].pc = "rejected"
        /\ calls[c].result = <<>>

\* the second collection failed after the first one gave a file
C7_Witness ==
    /\ calls[1].failedAt = 2
    /\ calls[1].files # <<>>
    /\ calls[1].maxFiles > 0
    /\ calls[1].pc = "rejected"

----------------------------------------------------------------------------
(* Properties of formatRelativeTime (SpecFormat) *)

\* the timestamp is later than the clock
InFuture ==
    \/ fmtDate.s > now.s
    \/ fmtDate.s = now.s /\ fmtDate.ms > now.ms

\* the age in whole seconds, read off the two instants: started seconds of
\* a future timestamp count as negative
AgeSecs == (now.s - fmtDate.s) - (IF now.ms < fmtDate.ms THEN 1 ELSE 0)

SecsPerDay == HoursPerDay * SecsPerHour

\* the band of the boundary table for an age of D >= 0 seconds
Band(D) ==
    IF D < 60 THEN JustNow
    ELSE IF D < 60 * 60 THEN Ago(D \div 60, "m")
    ELSE IF D < 24 * SecsPerHour THEN Ago(D \div SecsPerHour, "h")
    ELSE IF D < 7 * SecsPerDay THEN Ago(D \div SecsPerDay, "d")
    ELSE IF D < 30 * SecsPerDay THEN Ago((D \div SecsPerDay) \div 7, "w")
    ELSE DateLabel(fmtDate)

\* C8: for every age D >= 0 the label is the band of the table, with
\* truncating division; 59s is 'just now', 60s '1m ago', 3599s '59m ago',
\* 3600s '1h ago', 6d23h '6d ago', 7d '1w ago', 29d '4w ago', 31d a date.
C8_BoundaryTable ==
    (fmtLabel # NoLabel /\ AgeSecs >= 0) =>
        /\ fmtLabel = Band(AgeSecs)
        /\ AgeSecs = 59 => fmtLabel = JustNow
        /\ AgeSecs = 60 => fmtLabel = Ago(1, "m")
        /\ AgeSecs = 3599 => fmtLabel = Ago(59, "m")
        /\ AgeSecs = 3600 => fmtLabel = Ago(1, "h")
        /\ AgeSecs = 6 * SecsPerDay + 23 * SecsPerHour => fmtLabel = Ago(6, "d")
        /\ AgeSecs = 7 * SecsPerDay => fmtLabel = Ago(1, "w")
        /\ AgeSecs = 29 * SecsPerDay => fmtLabel = Ago(4, "w")
        /\ AgeSecs = 31 * SecsPerDay => fmtLabel.kind = "date"

\* an age of 29 days has been formatted
C8_Witness ==
    /\ fmtLabel # NoLabel
    /\ AgeSecs = 29 * SecsPerDay

\* C9: a timestamp later than the clock is formatted as 'just now'.
C9_FutureIsJustNow ==
    (fmtLabel # NoLabel /\ InFuture) => fmtLabel = JustNow

\* a timestamp more than a day after the clock has been formatted
C9_Witness ==
    /\ fmtLabel # NoLabel
    /\ InFuture
    /\ fmtDate.s - now.s > SecsPerDay

----------------------------------------------------------------------------
(* Properties of the modal (Spec) *)

Configured == config.maxFiles # <<>>

\* C10 as stated: the list of a modal has at most the configured maxFiles
\* items, for every configured value, and at most 15 when none is configured.
C10_Original ==
    \A m \in Ids : modals[m].body = "list" =>
        Len(modals[m].items) <=
            (IF Configured THEN config.maxFiles[1] ELSE DefaultMaxFiles)

\* C10 as amended: the list has at most maxFiles items when maxFiles is a
\* positive integer, at most 15 when maxFiles is 0 or not configured, and
\* never more than there are dated documents (the only bound for a negative
\* maxFiles).
C10_ListBounded ==
    \A m \in Ids :
        /\ (Configured /\ config.maxFiles[1] > 0) =>
               Len(modals[m].items) <= config.maxFiles[1]
        /\ (~Configured \/ config.maxFiles = <<0>>) =>
               Len(modals[m].items) <= DefaultMaxFiles
        /\ Len(modals[m].items) <= NumDated

\* a modal without a configured maxFiles lists 15 of more than 15 documents
C10_Witness ==
    /\ ~Configured
    /\ NumDated > DefaultMaxFiles
    /\ modals[1].body = "list"
    /\ Len(modals[1].items) = DefaultMaxFiles

----------------------------------------------------------------------------
(* Properties of the modal's life cycle (Spec) *)

Created(m) == modals[m].body # "none"
Pending(c) == calls[c].pc \in {"getAllCollections", "getAllRecords"}

\* the calls a step has started
StartedInStep ==
    { m \in Ids : calls'[m] # calls[m] /\ calls'[m].pc = "getAllCollections" }

\* C11: a call of getRecentFiles starts only in the step of a click on the
\* sidebar item, every such click starts exactly one call, a call belongs to
\* the modal its click has opened (none exists after loading), and the
\* host's listings are consumed by nothing but the steps of a started call.
C11_ScanOnlyOnClick ==
    /\ [](\A m \in Ids : calls[m].pc # "idle" => Created(m))
    /\ [][ /\ \A m \in StartedInStep : lastEvent' = Event("sidebar", m)
           /\ lastEvent'.kind = "sidebar" =>
                /\ Cardinality(StartedInStep) = 1
                /\ \A m \in Ids : calls'[m] # calls[m] =>
                       (m \in StartedInStep /\ calls[m].pc = "idle")
           /\ \A m \in Ids : (calls'[m] # calls[m] /\ lastEvent'.kind # "sidebar") =>
                (lastEvent' = Event("host", m) /\ Pending(m)) ]_vars

\* a second click, after the scan of the first has ended and its modal was
\* closed, has started the second scan
C11_Witness ==
    /\ lastEvent = Event("sidebar", 2)
    /\ calls[2].pc = "getAllCollections"
    /\ calls[1].pc = "resolved"
    /\ ~modals[1].attached

\* C12: the Escape key closes every open modal (each open modal has its
\* handler registered), a click on the backdrop or on the close button
\* closes the modal it reaches, whatever the modal shows, and a click inside
\* the modal on neither an item nor the close button changes nothing.
C12_CloseTransitions ==
    /\ [](\A m \in Ids : modals[m].attached => modals[m].escListener)
    /\ [][ /\ lastEvent'.kind = "escape" => \A m \in Ids : ~modals'[m].attached
           /\ \A m \in Ids :
                lastEvent' \in {Event("backdrop", m), Event("closeBtn", m)} =>
                    (modals[m].attached /\ ~modals'[m].attached)
           /\ \A m \in Ids : lastEvent' = Event("inside", m) =>
                    (modals[m].attached /\ modals' = modals) ]_vars

\* a modal that shows the error message has been closed by a click on its
\* backdrop
C12_Witness ==
    /\ lastEvent = Event("backdrop", 1)
    /\ modals[1].body = "error"
    /\ ~modals[1].attached

\* C13: with showCollection false no item of a list has the collection name
\* or the separator; with showCollection true or not configured every item
\* has the name of its file's collection, and the separator.
C13_ShowCollection ==
    \A m \in Ids : \A i \in 1..Len(modals[m].items) :
        /\ config.showCollection = <<FALSE>> =>
               /\ modals[m].items[i].collectionName = <<>>
               /\ ~modals[m].items[i].separator
        /\ config.showCollection \in {<<>>, <<TRUE>>} =>
               /\ modals[m].items[i].collectionName = <<calls[m].result[i].collectionName>>
               /\ modals[m].items[i].separator

\* a list rendered with showCollection false
C13_Witness ==
    /\ config.showCollection = <<FALSE>>
    /\ modals[1].body = "list"
    /\ modals[1].items[1].collectionName = <<>>

\* C14: two calls on the same collections (which no step changes) with the
\* same maxFiles return the same sequence, and no step of the plugin changes
\* the collections or their records.
C14_Idempotent ==
    /\ [](\A m, k \in Ids :
            (Resolved(m) /\ Resolved(k) /\ calls[m].maxFiles = calls[k].maxFiles) =>
                calls[m].result = calls[k].result)
    /\ [][collections' = collections]_vars

\* two calls have returned at least two files each
C14_Witness ==
    /\ Resolved(1)
    /\ Resolved(2)
    /\ Len(calls[1].result) >= 2
    /\ Len(calls[2].result) >= 2

\* C15: once a modal is closed, by whatever transition, its keydown
\* listener is no longer registered on the document.
C15_ListenersRemovedOnClose ==
    \A m \in Ids : (Created(m) /\ ~modals[m].attached) => ~modals[m].escListener

OpenFailed(open) == open.pc = "done" /\ open.outcome # "opened"

\* C16: an openRecord that has failed (no workspace guid, no panel, or
\* something thrown) rejects, so that the click handler that awaits it gets
\* the failure.
C16_OpenFailureReported ==
    \A k \in 1..Len(opens) : OpenFailed(opens[k]) => opens[k].rejected

\* the guid of the item an open was clicked on
SelectedGuid(open) == modals[open.modal].items[open.item].recordGuid

\* C17 as stated: every completed selection has invoked navigateTo exactly
\* once, with the guid of the selected item, and its modal is closed.
C17_Original ==
    \A k \in 1..Len(opens) : opens[k].pc = "done" =>
        /\ opens[k].navigated = <<SelectedGuid(opens[k])>>
        /\ ~modals[opens[k].modal].attached

\* the opens that a step has completed
CompletedInStep ==
    { k \in 1..Len(opens') :
        opens'[k].pc = "done" /\ (k > Len(opens) \/ opens[k].pc # "done") }

\* C17 as amended: a selection invokes navigateTo at most once: exactly
\* once, with the guid of the selected item, when there is a workspace guid
\* and createPanel gives a panel, and not at all otherwise; when its
\* openRecord has completed the modal is closed, and a modal leaves the
\* document only by the Escape key, by a click on its backdrop or close
\* button, or in the step that completes an openRecord of one of its items.
C17_SelectNavigatesThenCloses ==
    /\ [](\A k \in 1..Len(opens) :
            /\ opens[k].pc = "done" =>
                 /\ ~modals[opens[k].modal].attached
                 /\ opens[k].outcome \in {"opened", "navigationThrew"} =>
                        opens[k].navigated = <<SelectedGuid(opens[k])>>
                 /\ opens[k].outcome \in {"noWorkspace", "noPanel"} =>
                        opens[k].navigated = <<>>
            /\ opens[k].pc # "done" => opens[k].navigated = <<>>)
    /\ [][ \A m \in Ids : (modals[m].attached /\ ~modals'[m].attached) =>
             \/ lastEvent'.kind \in {"escape", "backdrop", "closeBtn"}
             \/ \E k \in CompletedInStep : opens'[k].modal = m ]_vars

\* the second item of a list has been selected and opened
C17_Witness ==
    /\ Len(opens) = 1
    /\ opens[1].item = 2
    /\ opens[1].outcome = "opened"
    /\ opens[1].navigated # <<>>
    /\ ~modals[opens[1].modal].attached

\* C18: a modal whose call is pending shows the loading indicator; once the
\* call has settled it shows the list when the result is not empty, the
\* empty-result message when the call returned no file, and the error
\* message when the call was rejected.
C18_ThreeOutcomes ==
    \A m \in Ids : Created(m) =>
        /\ Pending(m) => modals[m].body = "loading"
        /\ (Resolved(m) /\ calls[m].result # <<>>) =>
               (modals[m].body = "list" /\ Len(modals[m].items) = Len(calls[m].result))
        /\ (Resolved(m) /\ calls[m].result = <<>>) => modals[m].body = "empty"
        /\ calls[m].pc = "rejected" => modals[m].body = "error"

\* a call that had read files was rejected at its second collection, and
\* the modal shows the error message
C18_Witness ==
    /\ calls[1].failedAt = 2
    /\ calls[1].files # <<>>
    /\ modals[1].body = "error"

\* C19: a step of the call of one modal leaves every other modal and every
\* other call as they are, and a list shows the files its own modal's call
\* has returned, in whatever order the calls end.
C19_NoInterference ==
    /\ [](\A m \in Ids : modals[m].body = "list" =>
            \A i \in 1..Len(modals[m].items) :
                modals[m].items[i].recordGuid = calls[m].result[i].recordGuid)
    /\ [][ \A m \in Ids : lastEvent' = Event("host", m) =>
             \A k \in Ids \ {m} :
                 modals'[k] = modals[k] /\ calls'[k] = calls[k] ]_vars

\* the call of the first modal has ended after the call of the second one,
\* both lists are shown
C19_Witness ==
    /\ lastEvent = Event("host", 1)
    /\ Resolved(1)
    /\ modals[1].body = "list"
    /\ modals[2].body = "list"
    /\ modals[2].attached

\* C20: a modal that is out of the document stays out of it, and a step of
\* a call creates no modal.
C20_ClosedIsAbsorbing ==
    [][ /\ \A m \in Ids : (Created(m) /\ ~modals[m].attached) => ~modals'[m].attached
        /\ lastEvent'.kind = "host" =>
             \A m \in Ids : Created(m) <=> modals'[m].body # "none" ]_vars

\* the call of a modal that was closed while loading has returned a list
C20_Witness ==
    /\ lastEvent = Event("host", 1)
    /\ Resolved(1)
    /\ modals[1].body = "list"
    /\ ~modals[1].attached

====
